---- MODULE Spec2Model ----
(***************************************************************************)
(* A state-machine model of openmoc/plotter.py: the plot builders, the     *)
(* pixel-grid builder, the rasterization loop, the colorizer and the       *)
(* renderer of plot_spatial_data, and the process-wide state they touch    *)
(* (the output subdirectory, the NumPy generator, the directories on       *)
(* disk).                                                                  *)
(*                                                                         *)
(* Conventions.  Python's None is the empty tuple <<>>.  A Python value    *)
(* whose type the code tests is a tagged tuple <<type, value>>.  A float   *)
(* is <<"num", n, d>> (the rational n/d in lowest terms, d > 0),           *)
(* <<"inf", +-1, 1>> or <<"nan", 0, 1>>; the sign of a zero is not kept,   *)
(* as no comparison of the code tells -0.0 from 0.0.  Arrays are functions *)
(* over 0 .. n-1, indexed as in the code.                                  *)
(***************************************************************************)
EXTENDS Integers, Sequences, FiniteSets, TLC

VARIABLES
    pc,            \* "idle", "sweep" (inside the eigenmode loop), "done", "error"
    call,          \* the plot builder the user called
    args,          \* its arguments
    err,           \* what ended the call: "none" or the exception raised
    subdirectory,  \* plotter.subdirectory, the module's global
    rng,           \* the state of NumPy's global generator
    dirs,          \* the output directories that exist on disk
    flux,          \* the scalar flux the MOC solver holds: "converged" or the
                   \* array setFluxes was last given
    io,            \* the environment's answers to the call (does savefig succeed)
    loop,          \* plot_eigenmode_fluxes: the index of the next eigenmode
    eff,           \* what the call did so far: directories made, arrays built,
                   \* containment queries, figures created, files written
    plot,          \* the last run of plot_spatial_data: coords, fields, image
    colors,        \* the identity color mapping the call built last
    kept           \* an identity color mapping of an earlier call, remembered

vars == <<pc, call, args, err, subdirectory, rng, dirs, flux, io, loop, eff, plot,
          colors, kept>>

-----------------------------------------------------------------------------
(* Bounds of the model.                                                    *)

NumFSRs == 2        \* flat source regions of the geometry
MaxGrid == 2        \* largest gridsize a call is made with
MaxData == 2        \* largest entry of a per-region data array
NumModes == 10      \* eigenmodes of the IRAMSolver (two decimal digits)
MaxColors == 3      \* largest num_colors _colorize is called with
MaxSeed == 2        \* largest seed _colorize is called with
MaxAge == 2         \* calls counted after a color mapping is remembered
NumGroups == 2      \* energy groups of the solver

None == <<>>

-----------------------------------------------------------------------------
(* Floats.                                                                 *)

NaN == <<"nan", 0, 1>>
PosInf == <<"inf", 1, 1>>
NegInf == <<"inf", -1, 1>>

Abs(n) == IF n < 0 THEN -n ELSE n
Sign(n) == IF n > 0 THEN 1 ELSE IF n < 0 THEN -1 ELSE 0

RECURSIVE Gcd(_, _)
Gcd(a, b) == IF b = 0 THEN a ELSE Gcd(b, a % b)

\* The float n/d, d # 0.
Frac(n, d) ==
    LET g == Gcd(Abs(n), Abs(d))
    IN  <<"num", (Sign(d) * n) \div g, Abs(d) \div g>>

Float(n) == <<"num", n, 1>>

isnan(v) == v[1] = "nan"
isfinite(v) == v[1] = "num"

\* a == b on floats: a NaN equals nothing.
FloatEq(a, b) == ~isnan(a) /\ ~isnan(b) /\ a = b

\* a < b on floats that are not NaN.
FloatLess(a, b) ==
    CASE a[1] = "inf" /\ b[1] = "inf" -> a[2] < b[2]
      [] a[1] = "inf" -> a[2] < 0
      [] b[1] = "inf" -> b[2] > 0
      [] OTHER -> a[2] * b[3] < b[2] * a[3]

\* a / b as NumPy divides float64 arrays: a division by zero gives an
\* infinity or a NaN (with a warning), never an exception.
FloatDiv(a, b) ==
    CASE isnan(a) \/ isnan(b) -> NaN
      [] a[1] = "inf" /\ b[1] = "inf" -> NaN
      [] a[1] = "inf" -> <<"inf", a[2] * (IF b[2] < 0 THEN -1 ELSE 1), 1>>
      [] b[1] = "inf" -> Float(0)
      [] b[2] = 0 -> IF a[2] = 0 THEN NaN ELSE <<"inf", Sign(a[2]), 1>>
      [] OTHER -> Frac(a[2] * b[3], a[3] * b[2])

\* np.max over the values of a set: a NaN propagates.
FloatMax(S) ==
    IF \E v \in S : isnan(v) THEN NaN
    ELSE CHOOSE m \in S : \A v \in S : ~FloatLess(m, v)

-----------------------------------------------------------------------------
(* The Geometry collaborator (spec sections 4.2 and 6): NumFSRs vertical   *)
(* strips of width StripWidth, side by side from x = 0, of height          *)
(* getMaxY; region r is the strip r*StripWidth <= x < (r+1)*StripWidth.    *)
(* The box is wider than it is high, and the region of (x, y) differs from *)
(* the region of (y, x).  Lengths are in units of TINY_MOVE.               *)

StripWidth == 4
getMinX == 0
getMaxX == NumFSRs * StripWidth
getMinY == 0
getMaxY == 4
getMinZ == -2
getMaxZ == 2
getNumFSRs == NumFSRs

TINY_MOVE == 1

\* geometry.findCellContainingCoords(point); geometry.getFSRId(point) for the
\* point (xn/den, yn/den): the id of the region that holds it, NaN when no
\* region does.
getFSRId(xn, yn, den) ==
    IF /\ getMinX * den <= xn /\ xn < getMaxX * den
       /\ getMinY * den <= yn /\ yn <= getMaxY * den
    THEN Float(xn \div (StripWidth * den))
    ELSE NaN

-----------------------------------------------------------------------------
(* openmoc.log and openmoc.process.                                        *)

\* py_printf('ERROR', ...) raises: the call that reports a validation error
\* ends there (spec section 7: fail-fast, user-visible errors).
py_printf_ERROR_raises == TRUE

is_integer(v) == v # None /\ v[1] = "int"
is_float(v) == v # None /\ v[1] = "float"
isinstance_str(v) == v # None /\ v[1] = "str"
isinstance_ndarray(v) == v # None /\ v[1] = "ndarray"

len(array) == Cardinality(DOMAIN array)

-----------------------------------------------------------------------------
(* The Pixel-Grid Builder.                                                 *)

\* The denominator of the points of np.linspace(b0, b1, num), and their
\* numerators: b0 + k * (b1 - b0) / (num - 1), and b0 alone when num = 1.
linspace_den(num) == IF num > 1 THEN num - 1 ELSE 1
linspace(b0, b1, num) ==
    [k \in 0 .. num - 1 |-> b0 * linspace_den(num) + k * (b1 - b0)]

_get_pixel_coords(gridsize, xlim, ylim) ==
    LET bounds == << IF xlim # None THEN xlim[1] ELSE getMinX + TINY_MOVE,
                     IF xlim # None THEN xlim[2] ELSE getMaxX - TINY_MOVE,
                     IF ylim # None THEN ylim[1] ELSE getMinY + TINY_MOVE,
                     IF ylim # None THEN ylim[2] ELSE getMaxY - TINY_MOVE >>
    IN  [x |-> linspace(bounds[1], bounds[2], gridsize),
         y |-> linspace(bounds[3], bounds[4], gridsize),
         den |-> linspace_den(gridsize),
         bounds |-> bounds]

\* _check_zcoord: the error it reports, "none" when it reports none.
_check_zcoord(zcoord) ==
    IF ~is_float(zcoord) THEN "z-coord is not a float"
    ELSE IF zcoord[2] < getMinZ \/ zcoord[2] > getMaxZ
         THEN "z-coord is outside the geometry z-bounds"
         ELSE "none"

-----------------------------------------------------------------------------
(* The Rasterizer: the nested loop of plot_spatial_data.                   *)

\* The point sampled at loop indices (i, j), as numerators over coords.den.
SamplePoint(coords, i, j) == [x |-> coords.y[i], y |-> coords.x[j]]

\* The entry of surface the iteration (i, j) writes: <<row, column>>.
RasterTarget(i, j) == <<j, i>>

\* A loop that indexes fsrs_to_data with the sentinel itself: Python's index
\* -1 is the last element.
RasterEntry_IndexesWithSentinel(fsr_id, fsrs_to_data) ==
    IF isnan(fsr_id) THEN Float(fsrs_to_data[len(fsrs_to_data) - 1])
    ELSE Float(fsrs_to_data[fsr_id[2]])

\* The value the iteration writes for the region id the geometry reported.
RasterEntry(fsr_id, fsrs_to_data) ==
    IF isnan(fsr_id) THEN Float(-1) ELSE Float(fsrs_to_data[fsr_id[2]])

\* A loop that moves its sample by a draw of the global generator.
RasterQuery_Jittered(k, gridsize, coords) ==
    LET p == SamplePoint(coords, k \div gridsize, k % gridsize)
    IN  getFSRId(p.x + (rng % 2) * StripWidth * coords.den, p.y, coords.den)

\* The region id the iteration k of the loop (i outer, j inner) looks up.
RasterQuery(k, gridsize, coords) ==
    LET p == SamplePoint(coords, k \div gridsize, k % gridsize)
    IN  getFSRId(p.x, p.y, coords.den)

\* The iterations at which fsrs_to_data[fsr_id] raises an IndexError.
RasterIndexErrors(gridsize, coords, fsrs_to_data) ==
    {k \in 0 .. gridsize * gridsize - 1 :
        LET fsr_id == RasterQuery(k, gridsize, coords)
        IN  ~isnan(fsr_id) /\ fsr_id[2] \notin DOMAIN fsrs_to_data}

\* Iterations k, k+1, ... of the loop, in the code's order.
RECURSIVE RasterLoop(_, _, _, _, _)
RasterLoop(k, surface, gridsize, coords, fsrs_to_data) ==
    IF k >= gridsize * gridsize THEN surface
    ELSE LET t == RasterTarget(k \div gridsize, k % gridsize)
             v == RasterEntry(RasterQuery(k, gridsize, coords), fsrs_to_data)
         IN  RasterLoop(k + 1, [surface EXCEPT ![t[1]][t[2]] = v],
                        gridsize, coords, fsrs_to_data)

\* np.zeros((gridsize, gridsize))
zeros(gridsize) == [r \in 0 .. gridsize - 1 |-> [c \in 0 .. gridsize - 1 |-> Float(0)]]

Entries(surface) == {surface[r][c] : r \in DOMAIN surface, c \in DOMAIN surface}

-----------------------------------------------------------------------------
(* The Colorizer's scalar mode and the Renderer's image.                   *)

\* A normalization by the first entry in place of the maximum.
Normalize_ByFirstEntry(surface) ==
    [r \in DOMAIN surface |->
        [c \in DOMAIN surface |-> FloatDiv(surface[r][c], surface[0][0])]]

\* surface /= np.max(surface)
Normalize(surface) ==
    LET m == FloatMax(Entries(surface))
    IN  [r \in DOMAIN surface |-> [c \in DOMAIN surface |-> FloatDiv(surface[r][c], m)]]

\* A step that also makes the entries below zero transparent.
TransparentZeros_NonPositive(surface) ==
    [r \in DOMAIN surface |->
        [c \in DOMAIN surface |->
            IF FloatEq(surface[r][c], Float(0)) \/ FloatLess(surface[r][c], Float(0))
            THEN NaN ELSE surface[r][c]]]

\* surface[np.where(surface == 0.0)] = np.nan
TransparentZeros(surface) ==
    [r \in DOMAIN surface |->
        [c \in DOMAIN surface |->
            IF FloatEq(surface[r][c], Float(0)) THEN NaN ELSE surface[r][c]]]

\* np.flipud(surface)
flipud(surface) ==
    [r \in DOMAIN surface |-> surface[(len(surface) - 1) - r]]

\* What plt.imshow(image, extent=bounds) draws at horizontal position
\* xcoords[k] and vertical position ycoords[l]: with the origin at the top,
\* row 0 of the image is the top row, at the largest y.
DrawnAt(image, k, l) == image[(len(image) - 1) - l][k]

-----------------------------------------------------------------------------
(* plot_spatial_data.  Every builder is an operator from the state of the  *)
(* process at the call, st = [err, subdirectory, rng, dirs, flux, eff,     *)
(* plot, colors], to its state when the call ends; st.err names the        *)
(* exception that ended it.                                                *)

NoEffects ==
    [madeDirs |-> {}, arrays |-> 0, queries |-> 0, figures |-> 0, files |-> {},
     plots |-> << >>, reads |-> 0, returned |-> "None"]

\* directory = openmoc.get_output_directory() + subdirectory;
\* if not os.path.exists(directory): os.makedirs(directory)
MakeDirectory(st) ==
    [st EXCEPT !.dirs = @ \cup {st.subdirectory},
               !.eff.madeDirs = @ \cup ({st.subdirectory} \ st.dirs)]

\* The error checks without the check of the length of fsrs_to_data.
SpatialDataError_NoLengthCheck(a) ==
    IF a.geometry # "Geometry" THEN "input is not a Geometry"
    ELSE IF ~isinstance_ndarray(a.fsrs_to_data) THEN "fsrs_to_data is not a NumPy array"
    ELSE IF ~is_integer(a.gridsize) THEN "gridsize is not an integer"
    ELSE IF a.gridsize[2] <= 0 THEN "negative gridsize"
    ELSE IF a.title # None /\ ~isinstance_str(a.title) THEN "non-string title"
    ELSE IF a.suptitle # None /\ ~isinstance_str(a.suptitle) THEN "non-string suptitle"
    ELSE IF ~isinstance_str(a.filename) THEN "non-string filename"
    ELSE _check_zcoord(IF a.zcoord = None THEN <<"float", 0>> ELSE a.zcoord)

\* The error checks of plot_spatial_data in the code's order: the first
\* that reports an error, "none" when none does.
SpatialDataError(a) ==
    IF a.geometry # "Geometry" THEN "input is not a Geometry"
    ELSE IF ~isinstance_ndarray(a.fsrs_to_data) THEN "fsrs_to_data is not a NumPy array"
    ELSE IF len(a.fsrs_to_data[2]) # getNumFSRs THEN "fsrs_to_data has the wrong length"
    ELSE IF ~is_integer(a.gridsize) THEN "gridsize is not an integer"
    ELSE IF a.gridsize[2] <= 0 THEN "negative gridsize"
    ELSE IF a.title # None /\ ~isinstance_str(a.title) THEN "non-string title"
    ELSE IF a.suptitle # None /\ ~isinstance_str(a.suptitle) THEN "non-string suptitle"
    ELSE IF ~isinstance_str(a.filename) THEN "non-string filename"
    ELSE _check_zcoord(IF a.zcoord = None THEN <<"float", 0>> ELSE a.zcoord)

\* The rendering of the field: the figure, the image, the file.
SpatialDataRender(a, env, st, coords, raster) ==
    LET normed == IF a.norm THEN Normalize(raster) ELSE raster
        surface == IF a.transparent_zeros THEN TransparentZeros(normed) ELSE normed
        drawn == [st EXCEPT
                    !.eff.figures = @ + 1,
                    !.plot = [coords |-> coords, data |-> a.fsrs_to_data[2],
                              norm |-> a.norm, transparent_zeros |-> a.transparent_zeros,
                              raster |-> raster, normed |-> normed,
                              surface |-> surface, image |-> flipud(surface)]]
    IN  IF a.get_figure THEN [drawn EXCEPT !.eff.returned = "figure"]
        ELSE IF ~env.savefig THEN [drawn EXCEPT !.err = "savefig failed"]
        ELSE [drawn EXCEPT !.eff.files = @ \cup {<<st.subdirectory, a.filename[2]>>}]

\* The plotting work of plot_spatial_data, once its checks have passed.
SpatialDataPlot(a, env, st) ==
    LET gridsize == a.gridsize[2]
        coords == _get_pixel_coords(gridsize, a.xlim, a.ylim)
        bad == RasterIndexErrors(gridsize, coords, a.fsrs_to_data[2])
        first == CHOOSE k \in bad : \A m \in bad : k <= m
    IN  IF bad # {}
        THEN [st EXCEPT !.err = "IndexError", !.eff.queries = @ + first + 1]
        ELSE SpatialDataRender(a, env,
                 [st EXCEPT !.eff.queries = @ + gridsize * gridsize], coords,
                 RasterLoop(0, zeros(gridsize), gridsize, coords, a.fsrs_to_data[2]))

plot_spatial_data(a, env, st) ==
    LET st1 == MakeDirectory(st)
        e == SpatialDataError(a)
    IN  IF e # "none" /\ py_printf_ERROR_raises THEN [st1 EXCEPT !.err = e]
        ELSE SpatialDataPlot(a, env, st1)


-----------------------------------------------------------------------------
(* NumPy's global generator.  The Mersenne Twister is modelled by a small  *)
(* linear congruential generator: a state, seeded by numpy.random.seed,    *)
(* advanced by every draw; shuffle is NumPy's Fisher-Yates loop over it.   *)

np_seed(seed) == seed % 32
rk_next(state) == (5 * state + 21) % 32

\* rk_interval(max): a draw from 0 .. max in generator state `state`.
rk_interval(max, state) == (rk_next(state) \div 4) % (max + 1)

\* numpy.random.shuffle(x): for i in reversed(range(1, n)): swap x[i], x[j]
\* with j = rk_interval(i); the iterations i, i-1, ..., 1.
RECURSIVE ShuffleFrom(_, _, _)
ShuffleFrom(i, x, state) ==
    IF i < 1 THEN [x |-> x, rng |-> state]
    ELSE LET j == rk_interval(i, state)
         IN  ShuffleFrom(i - 1, [x EXCEPT ![i] = x[j], ![j] = x[i]], rk_next(state))

shuffle(x, state) == ShuffleFrom(len(x) - 1, x, state)

\* np.arange(n)
arange(n) == [k \in 0 .. n - 1 |-> k]

-----------------------------------------------------------------------------
(* The Colorizer's identity mode.                                          *)

\* array.take(data), with NumPy's default mode 'raise': an index from
\* -len(array) to -1 counts from the end, any other index outside
\* 0 .. len(array)-1 raises an IndexError.
TakeIndex(array, d) == IF d < 0 THEN len(array) + d ELSE d

TakeRaises(array, data) ==
    \E k \in DOMAIN data : TakeIndex(array, data[k]) \notin DOMAIN array

take(array, data) == [k \in DOMAIN data |-> array[TakeIndex(array, data[k])]]

\* The generator state _colorize shuffles from: numpy.random.seed(1).
ColorizeSeedState_NotSeeded(seed, state) == state
ColorizeSeedState(seed, state) == np_seed(1)

\* _colorize(data, num_colors, seed): st.colors holds the mapping built
\* (ids_to_colors) and the array returned (ids_to_colors.take(data), which
\* raises an IndexError on an id that is no index of ids_to_colors).
_colorize(data, num_colors, seed, st) ==
    LET id_colors == shuffle(arange(num_colors), ColorizeSeedState(seed, st.rng))
        ids_to_colors == id_colors.x
        st1 == [st EXCEPT !.rng = id_colors.rng,
                          !.colors = [kind |-> "_colorize", seed |-> seed,
                                      n |-> num_colors, map |-> ids_to_colors,
                                      out |-> None]]
    IN  IF TakeRaises(ids_to_colors, data)
        THEN [st1 EXCEPT !.err = "IndexError"]
        ELSE [st1 EXCEPT !.colors.out = take(ids_to_colors, data)]

-----------------------------------------------------------------------------
(* Cells and Materials of the Geometry collaborator: every flat source     *)
(* region is a Cell of its own, filled with one of two Materials in turn.  *)

findCellContainingFSR(fsr_id) == 10 + fsr_id
getFillMaterial(cell_id) == 20 + (cell_id % 2)

\* The keys of a SWIG map in iteration (ascending) order, as a list.
RECURSIVE SortedList(_)
SortedList(S) ==
    IF S = {} THEN << >>
    ELSE LET m == CHOOSE x \in S : \A y \in S : x <= y
         IN  <<m>> \o SortedList(S \ {m})

\* [key for key in dict]: a Python list, indexed from 0.
KeyList(S) == [k \in 0 .. Cardinality(S) - 1 |-> SortedList(S)[k + 1]]

getAllMaterialCells == {findCellContainingFSR(r) : r \in 0 .. getNumFSRs - 1}
getAllMaterials == {getFillMaterial(c) : c \in getAllMaterialCells}

\* The generator state plot_cells and plot_materials shuffle their id lists
\* from: numpy.random.seed(1).
IdListSeedState(state) == np_seed(1)

\* np.where(ids == id)[0]: the position of id in the shuffled list.
PositionIn(ids, id) == CHOOSE k \in DOMAIN ids : ids[k] = id

\* The checks plot_cells and plot_materials make before they build arrays.
GeometryPlotError(a) ==
    IF a.geometry # "Geometry" THEN "input is not a Geometry"
    ELSE _check_zcoord(IF a.zcoord = None THEN <<"float", 0>> ELSE a.zcoord)

\* The body shared by plot_cells and plot_materials: the array of the ids
\* of the regions, the shuffled id list, the array of color indices, the
\* call of plot_spatial_data.
IdentityPlot(kind, fsrs_to_ids, all_ids, a, env, st) ==
    LET e == GeometryPlotError(a)
        zcoord == IF a.zcoord = None THEN <<"float", 0>> ELSE a.zcoord
        ids == shuffle(KeyList(all_ids), IdListSeedState(st.rng))
        map == [id \in all_ids |-> PositionIn(ids.x, id)]
        st1 == [st EXCEPT !.eff.arrays = @ + 1, !.rng = ids.rng,
                          !.colors = [kind |-> kind, seed |-> 1,
                                      n |-> Cardinality(all_ids), map |-> map,
                                      out |-> [r \in DOMAIN fsrs_to_ids |-> map[fsrs_to_ids[r]]]]]
    IN  IF a.kwargs # {} THEN [st EXCEPT !.err = "TypeError"]
        ELSE IF e # "none" /\ py_printf_ERROR_raises THEN [st EXCEPT !.err = e]
        ELSE plot_spatial_data(
                 [geometry |-> a.geometry, fsrs_to_data |-> <<"ndarray", st1.colors.out>>,
                  norm |-> FALSE, transparent_zeros |-> FALSE,
                  zcoord |-> zcoord,
                  gridsize |-> a.gridsize, xlim |-> a.xlim, ylim |-> a.ylim,
                  title |-> <<"str", <<"z = ", zcoord[2]>>>>, suptitle |-> <<"str", <<kind>>>>,
                  filename |-> <<"str", <<kind, "-z-", zcoord[2]>>>>, get_figure |-> FALSE],
                 env, st1)

plot_cells(a, env, st) ==
    IdentityPlot("cells", [r \in 0 .. getNumFSRs - 1 |-> findCellContainingFSR(r)],
                 getAllMaterialCells, a, env, st)

plot_materials(a, env, st) ==
    IdentityPlot("materials",
                 [r \in 0 .. getNumFSRs - 1 |-> getFillMaterial(findCellContainingFSR(r))],
                 getAllMaterials, a, env, st)

-----------------------------------------------------------------------------
(* plot_flat_source_regions.                                               *)

isinstance_bool(v) == v # None /\ v[1] = "bool"

\* matplotlib.markers.MarkerStyle().markers.keys(), the ones used here.
ValidMarkers == {"o", "s", "x"}

FlatSourceRegionsError(a) ==
    IF a.geometry # "Geometry" THEN "input is not a Geometry"
    ELSE IF ~isinstance_bool(a.centroids) THEN "centroids is not a boolean"
    ELSE IF ~isinstance_str(a.marker_type) THEN "marker_type is not a string"
    ELSE IF a.marker_type[2] \notin ValidMarkers THEN "marker_type is not a valid marker"
    ELSE IF ~is_float(a.marker_size) /\ ~is_integer(a.marker_size)
         THEN "marker_size is not an int or float"
    ELSE IF a.marker_size[2] <= 0 THEN "negative marker_size"
    ELSE IF getNumFSRs = 0 THEN "no tracks have been generated"
    ELSE "none"

plot_flat_source_regions(a, env, st) ==
    LET e == FlatSourceRegionsError(a)
        st1 == _colorize(arange(getNumFSRs), getNumFSRs, 1,
                         [st EXCEPT !.eff.arrays = @ + 1])
        st2 == plot_spatial_data(
                 [geometry |-> a.geometry, fsrs_to_data |-> <<"ndarray", st1.colors.out>>,
                  norm |-> FALSE, transparent_zeros |-> FALSE,
                  zcoord |-> <<"float", 0>>,
                  gridsize |-> a.gridsize, xlim |-> a.xlim, ylim |-> a.ylim,
                  title |-> <<"str", <<"z = ", 0>>>>,
                  suptitle |-> <<"str", <<"Flat Source Regions">>>>,
                  filename |-> <<"str", <<"flat-source-regions-z-", 0>>>>,
                  get_figure |-> TRUE],
                 env, st1)
        st3 == IF a.centroids[2]
               THEN [st2 EXCEPT !.eff.plots = Append(@,
                        [marker_type |-> a.marker_type[2], marker_size |-> a.marker_size[2],
                         points |-> getNumFSRs])]
               ELSE st2
    IN  IF e # "none" /\ py_printf_ERROR_raises THEN [st EXCEPT !.err = e]
        ELSE IF st1.err # "none" THEN st1
        ELSE IF st2.err # "none" THEN st2
        ELSE IF ~env.savefig THEN [st3 EXCEPT !.err = "savefig failed", !.eff.returned = "None"]
        ELSE [st3 EXCEPT !.eff.returned = "None",
                         !.eff.files = @ \cup {<<st.subdirectory,
                                                 <<"flat-source-regions-z-", 0>>>>}]

-----------------------------------------------------------------------------
(* plot_cmfd_cells.  The Cmfd collaborator (spec section 6) has            *)
(* NumCmfdCells cells; with its overlay mesh made, region r lies in cell   *)
(* r % NumCmfdCells.  Without it no region is in any cell: the lookup then *)
(* answers -1, or raises, as the Cmfd object decides.                      *)

NumCmfdCells == 2

IsCmfd(cmfd) == cmfd.type = "Cmfd"

convertFSRIdToCmfdCell(cmfd, fsr_id) ==
    IF cmfd.overlay THEN fsr_id % NumCmfdCells ELSE -1

CmfdLookupRaises(cmfd) == ~cmfd.overlay /\ cmfd.missing = "raises"

CmfdPlotError(a) ==
    IF a.geometry # "Geometry" THEN "input is not a Geometry"
    ELSE IF ~IsCmfd(a.cmfd) THEN "input is not a Cmfd"
    ELSE "none"

plot_cmfd_cells(a, env, st) ==
    LET e == CmfdPlotError(a)
        fsrs_to_cmfd_cells ==
            [r \in 0 .. getNumFSRs - 1 |-> convertFSRIdToCmfdCell(a.cmfd, r)]
        st1 == _colorize(fsrs_to_cmfd_cells, NumCmfdCells, 1,
                         [st EXCEPT !.eff.arrays = @ + 1])
    IN  IF e # "none" /\ py_printf_ERROR_raises THEN [st EXCEPT !.err = e]
        ELSE IF CmfdLookupRaises(a.cmfd) THEN [st EXCEPT !.err = "Cmfd lookup raised"]
        ELSE IF st1.err # "none" THEN st1
        ELSE plot_spatial_data(
                 [geometry |-> a.geometry, fsrs_to_data |-> <<"ndarray", st1.colors.out>>,
                  norm |-> FALSE, transparent_zeros |-> FALSE,
                  zcoord |-> <<"float", 0>>,
                  gridsize |-> a.gridsize, xlim |-> a.xlim, ylim |-> a.ylim,
                  title |-> <<"str", <<"CMFD cells">>>>, suptitle |-> None,
                  filename |-> <<"str", <<"cmfd-cells.png">>>>, get_figure |-> FALSE],
                 env, st1)

-----------------------------------------------------------------------------
(* The Solver collaborators (spec section 6).  The MOC solver holds the    *)
(* scalar flux as a flat array, region-major: the flux of region r in      *)
(* group g (from 1) is entry r * num_groups + (g - 1).  The IRAMSolver     *)
(* holds NumModes complex eigenvectors of that length, <<re, im>>.         *)

getNumEnergyGroups == NumGroups
FluxLength == getNumFSRs * getNumEnergyGroups

\* The flux the MOC solver has converged before any plot is made.
ConvergedFlux == [k \in 0 .. FluxLength - 1 |-> 1 + (k % MaxData)]

\* iramsolver._eigenvectors[:, mode-1]: the primary eigenvector comes out of
\* the eigensolver with a negative sign, the others change sign in space.
EigenVector(mode) ==
    [k \in 0 .. FluxLength - 1 |->
        << (2 + ((k + mode) % MaxData)) * (IF mode = 1 \/ k % 2 = 1 THEN -1 ELSE 1),
           mode >>]

solver_getFlux(fluxes, fsr, group) == fluxes[fsr * getNumEnergyGroups + (group - 1)]

\* openmoc.process.get_scalar_fluxes(solver): fluxes[fsr][index], the flux
\* of group index + 1.
get_scalar_fluxes(fluxes) ==
    [r \in 0 .. getNumFSRs - 1 |->
        [index \in 0 .. getNumEnergyGroups - 1 |-> solver_getFlux(fluxes, r, index + 1)]]

\* 'Solver' in str(type(solver))
IsSolver(type) == type \in {"CPUSolver", "IRAMSolver"}

isinstance_list(v) == v # None /\ v[1] \in {"list", "tuple", "ndarray"}

-----------------------------------------------------------------------------
(* plot_spatial_fluxes.                                                    *)

SpatialFluxesError(a) ==
    IF ~IsSolver(a.solver) THEN "input is not a Solver"
    ELSE IF ~isinstance_list(a.energy_groups) THEN "energy_groups is not a list"
    ELSE "none"

\* The column of fluxes the plot at position index of the loop is given.
FluxColumn(fluxes, index, group) == [r \in DOMAIN fluxes |-> fluxes[r][index]]

\* The iterations index, index+1, ... of the loop over energy_groups (a
\* sequence); the loop ends at the first plot that raises.
RECURSIVE SpatialFluxesLoop(_, _, _, _, _)
SpatialFluxesLoop(index, fluxes, a, env, st) ==
    IF index >= Len(a.energy_groups[2]) \/ st.err # "none" THEN st
    ELSE IF index \notin DOMAIN fluxes[0] THEN [st EXCEPT !.err = "IndexError"]
    ELSE LET group == a.energy_groups[2][index + 1]
         IN  SpatialFluxesLoop(index + 1, fluxes, a, env,
                 plot_spatial_data(
                     [geometry |-> "Geometry",
                      fsrs_to_data |-> <<"ndarray", FluxColumn(fluxes, index, group)>>,
                      norm |-> a.norm, transparent_zeros |-> FALSE,
                      zcoord |-> <<"float", 0>>, gridsize |-> a.gridsize,
                      xlim |-> a.xlim, ylim |-> a.ylim,
                      title |-> <<"str", <<"z = ", 0>>>>,
                      suptitle |-> <<"str", <<"FSR Scalar Flux (Group ", group, ")">>>>,
                      filename |-> <<"str", <<"fsr-flux-group-", group, "-z-", 0>>>>,
                      get_figure |-> FALSE],
                     env,
                     [st EXCEPT !.eff.plots = Append(@, [group |-> group,
                                    data |-> FluxColumn(fluxes, index, group)])]))

plot_spatial_fluxes(a, env, st) ==
    LET e == SpatialFluxesError(a)
    IN  IF e # "none" /\ py_printf_ERROR_raises THEN [st EXCEPT !.err = e]
        ELSE SpatialFluxesLoop(0, get_scalar_fluxes(st.flux), a, env,
                               [st EXCEPT !.eff.arrays = @ + 1])

-----------------------------------------------------------------------------
(* plot_eigenmode_fluxes.                                                  *)

\* str(n) for n >= 0, as the sequence of its decimal digits.
RECURSIVE str(_)
str(n) == IF n < 10 THEN <<n>> ELSE str(n \div 10) \o <<n % 10>>

\* s.zfill(width)
RECURSIVE zfill(_, _)
zfill(s, width) == IF Len(s) >= width THEN s ELSE zfill(<<0>> \o s, width)

SeqMax(s) == CHOOSE m \in {s[k] : k \in DOMAIN s} : \A k \in DOMAIN s : s[k] <= m

\* A subdirectory named by the last digit of the mode only.
EigenSubdirectory_LastDigit(mode, eigenmodes) ==
    <<"/plots/eig-", <<mode % 10>>, "-flux/">>

\* '/plots/eig-{0}-flux/'.format(str(mode).zfill(num_digits))
EigenSubdirectory(mode, eigenmodes) ==
    <<"/plots/eig-", zfill(str(mode), Len(str(SeqMax(eigenmodes)))), "-flux/">>

\* The eigenmodes the loop runs over: all of them when the list is empty.
ResolvedModes(eigenmodes) ==
    IF Len(eigenmodes[2]) = 0 THEN [k \in 1 .. NumModes |-> <<"int", k>>]
    ELSE eigenmodes[2]

ModeNumbers(eigenmodes) ==
    [k \in DOMAIN ResolvedModes(eigenmodes) |-> ResolvedModes(eigenmodes)[k][2]]

\* The checks before the loop, in the code's order.
EigenmodeError(a) ==
    IF a.iramsolver # "IRAMSolver" THEN "input is not an IRAMSolver"
    ELSE IF ~isinstance_list(a.eigenmodes) THEN "eigenmodes is not a list"
    ELSE LET modes == ResolvedModes(a.eigenmodes)
             bad == {k \in DOMAIN modes :
                        ~is_integer(modes[k]) \/ modes[k][2] <= 0 \/ modes[k][2] > NumModes}
             first == CHOOSE k \in bad : \A m \in bad : k <= m
         IN  IF bad = {} THEN "none"
             ELSE IF ~is_integer(modes[first]) THEN "eigenmode is not an integer"
             ELSE IF modes[first][2] <= 0 THEN "negative eigenmode"
             ELSE "eigenmode out of range"

\* The part of plot_eigenmode_fluxes before its loop.
EigenmodeBegin(a, st) ==
    LET st1 == MakeDirectory(st)
        e == EigenmodeError(a)
    IN  IF e # "none" /\ py_printf_ERROR_raises THEN [st1 EXCEPT !.err = e] ELSE st1

\* The vector given to moc_solver.setFluxes for a mode: the real part of
\* the eigenvector, and its absolute value for the primary mode.
InjectedFlux(mode) ==
    [k \in 0 .. FluxLength - 1 |->
        LET re == EigenVector(mode)[k][1]
        IN  IF mode = 1 THEN Abs(re) ELSE re]

\* One iteration of the loop over the eigenmodes.
EigenmodeIteration(mode, a, env, st) ==
    plot_spatial_fluxes(
        [solver |-> "CPUSolver", energy_groups |-> a.energy_groups, norm |-> a.norm,
         gridsize |-> a.gridsize, xlim |-> a.xlim, ylim |-> a.ylim],
        env,
        [st EXCEPT !.flux = InjectedFlux(mode),
                   !.subdirectory = EigenSubdirectory(mode, ModeNumbers(a.eigenmodes))])

\* An end of the loop that also gives the solver its converged flux back.
EigenmodeEnd_RestoresFlux(st) ==
    [st EXCEPT !.subdirectory = <<"/plots/">>, !.flux = ConvergedFlux]

\* After the loop: subdirectory = '/plots/'.
EigenmodeEnd(st) == [st EXCEPT !.subdirectory = <<"/plots/">>]

-----------------------------------------------------------------------------
(* plot_energy_fluxes.                                                     *)

is_number(v) == is_integer(v) \/ is_float(v)

\* all(low < up for low, up in zip(group_bounds, group_bounds[1:]))
StrictlyIncreasing(bounds) ==
    \A k \in 1 .. Len(bounds) - 1 : bounds[k][2] < bounds[k + 1][2]

\* The checks of the elements of fsrs, in the code's order.
FsrsError(fsrs) ==
    IF ~isinstance_list(fsrs) THEN "fsrs is not a list"
    ELSE LET bad == {k \in DOMAIN fsrs[2] :
                        \/ ~is_integer(fsrs[2][k])
                        \/ fsrs[2][k][2] < 0
                        \/ fsrs[2][k][2] >= getNumFSRs}
             first == CHOOSE k \in bad : \A m \in bad : k <= m
         IN  IF bad = {} THEN "none"
             ELSE IF ~is_integer(fsrs[2][first]) THEN "non-integer FSR"
             ELSE IF fsrs[2][first][2] < 0 THEN "negative FSR"
             ELSE "FSR out of range"

\* The checks of group_bounds without the check of the sign of a bound.
GroupBoundsError_NoNegativeCheck(group_bounds) ==
    IF group_bounds = None THEN "none"
    ELSE IF ~isinstance_list(group_bounds) THEN "group bounds is not a list"
    ELSE IF ~StrictlyIncreasing(group_bounds[2])
         THEN "group bounds are not monotonically increasing"
    ELSE IF Len(group_bounds[2]) # getNumEnergyGroups + 1
         THEN "wrong number of group bounds"
    ELSE IF \E k \in DOMAIN group_bounds[2] : ~is_number(group_bounds[2][k])
         THEN "group bound is not a number"
    ELSE "none"

\* The checks of group_bounds, in the code's order: the if / elif before the
\* loop over the bounds, then the loop.
GroupBoundsError(group_bounds) ==
    IF group_bounds = None THEN "none"
    ELSE IF ~isinstance_list(group_bounds) THEN "group bounds is not a list"
    ELSE IF ~StrictlyIncreasing(group_bounds[2])
         THEN "group bounds are not monotonically increasing"
    ELSE IF Len(group_bounds[2]) # getNumEnergyGroups + 1
         THEN "wrong number of group bounds"
    ELSE LET bounds == group_bounds[2]
             bad == {k \in DOMAIN bounds : ~is_number(bounds[k]) \/ bounds[k][2] < 0}
             first == CHOOSE k \in bad : \A m \in bad : k <= m
         IN  IF bad = {} THEN "none"
             ELSE IF ~is_number(bounds[first]) THEN "group bound is not a number"
             ELSE "negative group bound"

EnergyFluxesError(a) ==
    IF ~IsSolver(a.solver) THEN "input is not a Solver"
    ELSE IF FsrsError(a.fsrs) # "none" THEN FsrsError(a.fsrs)
    ELSE GroupBoundsError(a.group_bounds)

\* group_bounds as the plot uses them: np.arange(num_groups+1) when None.
EnergyBounds(group_bounds) ==
    IF group_bounds = None THEN [k \in 1 .. getNumEnergyGroups + 1 |-> k - 1]
    ELSE [k \in DOMAIN group_bounds[2] |-> group_bounds[2][k][2]]

\* np.flipud(np.ediff1d(group_bounds)), indexed from 0.
FlippedDeltas(bounds) ==
    [g \in 0 .. Len(bounds) - 2 |-> bounds[Len(bounds) - g] - bounds[Len(bounds) - g - 1]]

RECURSIVE SumTo(_, _)
SumTo(f, n) == IF n < 0 THEN 0 ELSE f[n] + SumTo(f, n - 1)

\* The fluxes of one region as plotted: solver.getFlux(fsr, group+1), and
\* with norm divided by np.sum(group_deltas * fluxes).
EnergyFluxes(fsr, fluxes, bounds, norm) ==
    LET raw == [g \in 0 .. getNumEnergyGroups - 1 |-> solver_getFlux(fluxes, fsr, g + 1)]
        deltas == FlippedDeltas(bounds)
        total == SumTo([g \in DOMAIN raw |-> deltas[g] * raw[g]], getNumEnergyGroups - 1)
    IN  [g \in DOMAIN raw |->
            IF norm THEN FloatDiv(Float(raw[g]), Float(total)) ELSE Float(raw[g])]

\* The iterations k, k+1, ... of the loop over fsrs; the loop ends at the
\* first savefig that raises.
RECURSIVE EnergyFluxesLoop(_, _, _, _)
EnergyFluxesLoop(k, a, env, st) ==
    IF k > Len(a.fsrs[2]) \/ st.err # "none" THEN st
    ELSE LET fsr == a.fsrs[2][k][2]
             drawn == [st EXCEPT
                          !.eff.reads = @ + getNumEnergyGroups,
                          !.eff.figures = @ + 1,
                          !.eff.plots = Append(@,
                              [fsr |-> fsr,
                               data |-> EnergyFluxes(fsr, st.flux,
                                            EnergyBounds(a.group_bounds), a.norm)])]
         IN  EnergyFluxesLoop(k + 1, a, env,
                 IF ~env.savefig THEN [drawn EXCEPT !.err = "savefig failed"]
                 ELSE [drawn EXCEPT !.eff.files =
                          @ \cup {<<st.subdirectory, <<"flux-fsr-", fsr>>>>}])

plot_energy_fluxes(a, env, st) ==
    LET st1 == MakeDirectory(st)
        e == EnergyFluxesError(a)
    IN  IF e # "none" /\ py_printf_ERROR_raises THEN [st1 EXCEPT !.err = e]
        ELSE EnergyFluxesLoop(1, a, env, st1)

-----------------------------------------------------------------------------
(* The inputs the calls are made with.                                     *)

\* Per-region data: NumPy arrays of the geometry's length and one shorter.
DataArrays ==
    UNION {[0 .. n - 1 -> 0 .. MaxData] : n \in {getNumFSRs - 1, getNumFSRs}}

\* (xlim, ylim): the bounding box; a window wider than high that reaches
\* beyond the geometry; a square window; a window with its x-limits given
\* in descending order.
Windows ==
    { <<None, None>>,
      <<<<-StripWidth, StripWidth>>, <<0, getMaxY>>>>,
      <<<<0, getMaxY>>, <<0, getMaxY>>>>,
      <<<<getMaxY, 0>>, <<0, getMaxY>>>> }

ZCoords == {None, <<"float", getMaxZ + 1>>, <<"int", 0>>}

GridSizes == {<<"int", g>> : g \in 0 .. MaxGrid}

Environments == [savefig : BOOLEAN]

DefaultSpatialArgs ==
    [geometry |-> "Geometry",
     fsrs_to_data |-> <<"ndarray", [r \in 0 .. getNumFSRs - 1 |-> r]>>,
     norm |-> FALSE, transparent_zeros |-> TRUE, zcoord |-> None,
     gridsize |-> <<"int", MaxGrid>>, xlim |-> None, ylim |-> None,
     title |-> None, suptitle |-> None, filename |-> <<"str", <<"spatial-data">>>>,
     get_figure |-> FALSE]

SpatialDataArgs ==
    { [DefaultSpatialArgs EXCEPT
          !.fsrs_to_data = <<"ndarray", d>>, !.norm = n, !.transparent_zeros = t,
          !.zcoord = z, !.gridsize = g, !.xlim = w[1], !.ylim = w[2]] :
        d \in DataArrays, n \in BOOLEAN, t \in BOOLEAN, z \in ZCoords,
        g \in GridSizes, w \in Windows }
    \cup
    { [DefaultSpatialArgs EXCEPT !.geometry = "Solver"],
      [DefaultSpatialArgs EXCEPT !.fsrs_to_data = <<"list", DefaultSpatialArgs.fsrs_to_data[2]>>],
      [DefaultSpatialArgs EXCEPT !.gridsize = <<"float", MaxGrid>>],
      [DefaultSpatialArgs EXCEPT !.title = <<"int", 0>>],
      [DefaultSpatialArgs EXCEPT !.suptitle = <<"int", 0>>],
      [DefaultSpatialArgs EXCEPT !.filename = <<"int", 0>>],
      [DefaultSpatialArgs EXCEPT !.get_figure = TRUE] }

\* Calls of plot_spatial_data that differ in window, grid and data only.
RepeatedSpatialArgs ==
    { [DefaultSpatialArgs EXCEPT
          !.fsrs_to_data = <<"ndarray", d>>, !.gridsize = <<"int", g>>,
          !.xlim = w[1], !.ylim = w[2]] :
        d \in {[r \in 0 .. getNumFSRs - 1 |-> 0], [r \in 0 .. getNumFSRs - 1 |-> r % (MaxData + 1)]},
        g \in {1, MaxGrid}, w \in Windows }

\* _colorize: arrays of region ids over num_colors colors (the ids in
\* order, in reverse order, and the ids 1 .. num_colors, the last of which
\* is no index of the permutation), and a seed (None: the argument is left
\* out, and the parameter has its default, 1).
ColorizeData(n) ==
    {arange(n), [k \in 0 .. n - 1 |-> (n - 1) - k], [k \in 0 .. n - 1 |-> k + 1]}
ColorizeArgs ==
    UNION { { [data |-> d, num_colors |-> n, seed |-> sd] :
                d \in ColorizeData(n), sd \in {None} \cup {<<"int", n2>> : n2 \in 1 .. MaxSeed} } :
            n \in 1 .. MaxColors }

\* plot_cells and plot_materials; kwargs are the keyword arguments of the
\* call that the function does not declare.
IdentityPlotArgs ==
    { [geometry |-> g, gridsize |-> n, xlim |-> None, ylim |-> None, zcoord |-> z,
       kwargs |-> k] :
        g \in {"Geometry", "Solver"}, n \in {<<"int", 0>>, <<"int", MaxGrid>>},
        z \in {None, <<"float", getMaxZ + 1>>}, k \in {{}, {"get_figure"}} }

\* The four calls of the test of plot_cells: gridsize=100 and get_figure=True
\* with the default window, with a zcoord, with xlim and ylim, and with
\* library='pil' (the grid is scaled to MaxGrid, the zcoord and the window
\* to the geometry).
TestPlotCellsArgs ==
    { [geometry |-> "Geometry", gridsize |-> <<"int", MaxGrid>>, xlim |-> None,
       ylim |-> None, zcoord |-> None, kwargs |-> {"get_figure"}],
      [geometry |-> "Geometry", gridsize |-> <<"int", MaxGrid>>, xlim |-> None,
       ylim |-> None, zcoord |-> <<"float", 1>>, kwargs |-> {"get_figure"}],
      [geometry |-> "Geometry", gridsize |-> <<"int", MaxGrid>>, xlim |-> <<0, 2>>,
       ylim |-> <<0, 2>>, zcoord |-> None, kwargs |-> {"get_figure"}],
      [geometry |-> "Geometry", gridsize |-> <<"int", MaxGrid>>, xlim |-> None,
       ylim |-> None, zcoord |-> None, kwargs |-> {"get_figure", "library"}] }

\* plot_flat_source_regions: marker sizes below, at and above zero, with and
\* without centroids; and arguments of the wrong type.
DefaultFlatSourceArgs ==
    [geometry |-> "Geometry", gridsize |-> <<"int", MaxGrid>>, xlim |-> None,
     ylim |-> None, centroids |-> <<"bool", FALSE>>, marker_type |-> <<"str", "o">>,
     marker_size |-> <<"int", 2>>]

MarkerSizes ==
    {<<"int", n>> : n \in -1 .. 2} \cup {<<"float", -1>>, <<"float", 0>>, <<"float", 1>>}

FlatSourceArgs ==
    { [DefaultFlatSourceArgs EXCEPT !.centroids = <<"bool", c>>, !.marker_size = m,
                                    !.gridsize = <<"int", g>>] :
        c \in BOOLEAN, m \in MarkerSizes, g \in {0, MaxGrid} }
    \cup
    { [DefaultFlatSourceArgs EXCEPT !.geometry = "Solver"],
      [DefaultFlatSourceArgs EXCEPT !.centroids = <<"int", 1>>],
      [DefaultFlatSourceArgs EXCEPT !.marker_type = <<"int", 1>>],
      [DefaultFlatSourceArgs EXCEPT !.marker_type = <<"str", "?">>],
      [DefaultFlatSourceArgs EXCEPT !.marker_size = <<"str", "2">>] }

\* plot_cmfd_cells: a Cmfd object with and without its overlay mesh.
CmfdObjects ==
    { [type |-> "Cmfd", overlay |-> TRUE, missing |-> "minus one"],
      [type |-> "Cmfd", overlay |-> FALSE, missing |-> "minus one"],
      [type |-> "Cmfd", overlay |-> FALSE, missing |-> "raises"],
      [type |-> "Mesh", overlay |-> TRUE, missing |-> "minus one"] }

CmfdPlotArgs ==
    { [geometry |-> g, cmfd |-> c, gridsize |-> n, xlim |-> None, ylim |-> None] :
        g \in {"Geometry", "Solver"}, c \in CmfdObjects,
        n \in {<<"int", 0>>, <<"int", MaxGrid>>} }

\* Lists of energy groups: one group, and the last group before the first.
GroupLists ==
    {<<"list", <<g>>>> : g \in 1 .. NumGroups} \cup {<<"list", <<NumGroups, 1>>>>}

SpatialFluxesArgs ==
    { [solver |-> sv, energy_groups |-> eg, norm |-> n, gridsize |-> g,
       xlim |-> None, ylim |-> None] :
        sv \in {"CPUSolver"}, eg \in GroupLists, n \in BOOLEAN,
        g \in {<<"int", 0>>, <<"int", MaxGrid>>} }
    \cup
    { [solver |-> "Geometry", energy_groups |-> <<"list", <<1>>>>, norm |-> FALSE,
       gridsize |-> <<"int", 1>>, xlim |-> None, ylim |-> None],
      [solver |-> "CPUSolver", energy_groups |-> <<"int", 1>>, norm |-> FALSE,
       gridsize |-> <<"int", 1>>, xlim |-> None, ylim |-> None] }

\* Lists of eigenmodes: none (all modes), one mode, the first and the last
\* in both orders; and lists the checks reject.
ModeLists ==
    {<<"list", << >>>>, <<"list", <<<<"int", 1>>, <<"int", NumModes>>>>>>,
     <<"list", <<<<"int", NumModes>>, <<"int", 1>>>>>>}
    \cup {<<"list", <<<<"int", m>>>>>> : m \in {0, 1, NumModes, NumModes + 1}}
    \cup {<<"list", <<<<"float", 1>>>>>>, <<"int", 1>>}

EigenmodeArgs ==
    { [iramsolver |-> "IRAMSolver", eigenmodes |-> m, norm |-> FALSE,
       energy_groups |-> <<"list", <<1>>>>, gridsize |-> g, xlim |-> None, ylim |-> None] :
        m \in ModeLists, g \in {<<"int", 0>>, <<"int", 1>>} }
    \cup
    { [iramsolver |-> "CPUSolver", eigenmodes |-> <<"list", << >>>>, norm |-> FALSE,
       energy_groups |-> <<"list", <<1>>>>, gridsize |-> <<"int", 1>>,
       xlim |-> None, ylim |-> None] }

\* Lists of group bounds: the right ones; bounds that break one of the rules
\* (not increasing, wrong count, a negative bound) and bounds that break two
\* of them at once.
IntList(s) == <<"list", [k \in DOMAIN s |-> <<"int", s[k]>>]>>

GroupBoundsLists ==
    LET G == getNumEnergyGroups
    IN  { None, <<"int", 1>>,
          IntList([k \in 1 .. G + 1 |-> k - 1]),
          IntList([k \in 1 .. G + 1 |-> 2 * k]),
          IntList([k \in 1 .. G + 1 |-> IF k = 2 THEN 0 ELSE k - 1]),
          IntList([k \in 1 .. G + 2 |-> k - 1]),
          IntList([k \in 1 .. G |-> k - 1]),
          IntList([k \in 1 .. G + 1 |-> k - 2]),
          IntList(<<1, 0>>),
          IntList([k \in 1 .. G |-> k - 2]),
          IntList([k \in 1 .. G + 1 |-> IF k = 2 THEN -1 ELSE k - 1]),
          <<"list", [k \in 1 .. G + 1 |-> <<"float", k>>]>> }

FsrLists ==
    { IntList(<<0>>), IntList(<<getNumFSRs - 1, 0>>), IntList(<<-1>>),
      IntList(<<getNumFSRs>>), <<"list", <<<<"float", 0>>>>>>, <<"int", 0>> }

EnergyFluxesArgs ==
    { [solver |-> "CPUSolver", fsrs |-> f, group_bounds |-> b, norm |-> n,
       loglog |-> TRUE] :
        f \in FsrLists, b \in GroupBoundsLists, n \in BOOLEAN }
    \cup
    { [solver |-> "Geometry", fsrs |-> IntList(<<0>>), group_bounds |-> None,
       norm |-> TRUE, loglog |-> TRUE] }

-----------------------------------------------------------------------------
(* The state machine.                                                      *)

DefaultSubdirectory == <<"/plots/">>

Init ==
    /\ pc = "idle"
    /\ call = "none"
    /\ args = None
    /\ err = "none"
    /\ subdirectory = DefaultSubdirectory
    /\ rng = 0
    /\ dirs = {}
    /\ flux = ConvergedFlux
    /\ io = None
    /\ loop = 0
    /\ eff = NoEffects
    /\ plot = None
    /\ colors = None
    /\ kept = None

\* The state of the process as a call begins.
AtCall ==
    [err |-> "none", subdirectory |-> subdirectory, rng |-> rng, dirs |-> dirs,
     flux |-> flux, eff |-> NoEffects, plot |-> None, colors |-> None]

\* The state of the process inside a call.
Now == [AtCall EXCEPT !.eff = eff, !.plot = plot, !.colors = colors]

\* The call ended in state st, or goes on in state st at position `next`.
Becomes(st, next) ==
    /\ pc' = IF st.err = "none" THEN next ELSE "error"
    /\ err' = st.err
    /\ subdirectory' = st.subdirectory
    /\ rng' = st.rng
    /\ dirs' = st.dirs
    /\ flux' = st.flux
    /\ eff' = st.eff
    /\ plot' = st.plot
    /\ colors' = st.colors

Ends(st) == Becomes(st, "done")

Call_plot_spatial_data ==
    /\ pc = "idle"
    /\ \E a \in SpatialDataArgs, env \in Environments :
          /\ call' = "plot_spatial_data"
          /\ args' = a
          /\ io' = env
          /\ Ends(plot_spatial_data(a, env, AtCall))
          /\ UNCHANGED <<loop, kept>>

\* The call has returned or raised: its locals are gone, the globals stay.
Return ==
    /\ pc \in {"done", "error"}
    /\ pc' = "idle"
    /\ call' = "none"
    /\ args' = None
    /\ err' = "none"
    /\ io' = None
    /\ loop' = 0
    /\ eff' = NoEffects
    /\ plot' = None
    /\ colors' = None
    /\ kept' = IF kept = None THEN None
               ELSE [kept EXCEPT !.age = IF @ < MaxAge THEN @ + 1 ELSE @]
    /\ UNCHANGED <<subdirectory, rng, dirs, flux>>

Call_colorize ==
    /\ pc = "idle"
    /\ \E a \in ColorizeArgs :
          /\ call' = "_colorize"
          /\ args' = a
          /\ io' = None
          /\ Ends(_colorize(a.data, a.num_colors,
                            IF a.seed = None THEN 1 ELSE a.seed[2], AtCall))
          /\ UNCHANGED <<loop, kept>>

Call_plot_cells ==
    /\ pc = "idle"
    /\ \E a \in IdentityPlotArgs \cup TestPlotCellsArgs, env \in Environments :
          /\ call' = "plot_cells"
          /\ args' = a
          /\ io' = env
          /\ Ends(plot_cells(a, env, AtCall))
          /\ UNCHANGED <<loop, kept>>

Call_plot_cmfd_cells ==
    /\ pc = "idle"
    /\ \E a \in CmfdPlotArgs, env \in Environments :
          /\ call' = "plot_cmfd_cells"
          /\ args' = a
          /\ io' = env
          /\ Ends(plot_cmfd_cells(a, env, AtCall))
          /\ UNCHANGED <<loop, kept>>

Call_plot_flat_source_regions ==
    /\ pc = "idle"
    /\ \E a \in FlatSourceArgs, env \in Environments :
          /\ call' = "plot_flat_source_regions"
          /\ args' = a
          /\ io' = env
          /\ Ends(plot_flat_source_regions(a, env, AtCall))
          /\ UNCHANGED <<loop, kept>>

Call_plot_materials ==
    /\ pc = "idle"
    /\ \E a \in IdentityPlotArgs, env \in Environments :
          /\ call' = "plot_materials"
          /\ args' = a
          /\ io' = env
          /\ Ends(plot_materials(a, env, AtCall))
          /\ UNCHANGED <<loop, kept>>

\* An observer remembers the identity color mapping a call has built, to
\* compare it with the mappings of later calls; kept.age counts the calls
\* that have returned since (up to MaxAge).
Remember ==
    /\ pc \in {"done", "error"}
    /\ colors # None
    /\ kept = None
    /\ kept' = [kind |-> colors.kind, seed |-> colors.seed, n |-> colors.n,
                map |-> colors.map, age |-> 0]
    /\ UNCHANGED <<pc, call, args, err, subdirectory, rng, dirs, flux, io, loop, eff,
                   plot, colors>>

\* What fixes a region field: the window, the grid, z and the region data.
RasterKey(a) == <<a.xlim, a.ylim, a.gridsize, a.zcoord, a.fsrs_to_data>>

Call_plot_spatial_data_again ==
    /\ pc = "idle"
    /\ \E a \in RepeatedSpatialArgs, env \in Environments :
          /\ call' = "plot_spatial_data"
          /\ args' = a
          /\ io' = env
          /\ Ends(plot_spatial_data(a, env, AtCall))
          /\ UNCHANGED <<loop, kept>>

\* An observer remembers the region field a call has rasterized, and the
\* state of the generator then.
RememberRaster ==
    /\ pc \in {"done", "error"}
    /\ plot # None
    /\ kept = None
    /\ kept' = [kind |-> "raster", key |-> RasterKey(args), raster |-> plot.raster,
                rng |-> rng, age |-> 0]
    /\ UNCHANGED <<pc, call, args, err, subdirectory, rng, dirs, flux, io, loop, eff,
                   plot, colors>>

Call_plot_spatial_fluxes ==
    /\ pc = "idle"
    /\ \E a \in SpatialFluxesArgs, env \in Environments :
          /\ call' = "plot_spatial_fluxes"
          /\ args' = a
          /\ io' = env
          /\ Ends(plot_spatial_fluxes(a, env, AtCall))
          /\ UNCHANGED <<loop, kept>>

Call_plot_energy_fluxes ==
    /\ pc = "idle"
    /\ \E a \in EnergyFluxesArgs, env \in Environments :
          /\ call' = "plot_energy_fluxes"
          /\ args' = a
          /\ io' = env
          /\ Ends(plot_energy_fluxes(a, env, AtCall))
          /\ UNCHANGED <<loop, kept>>

\* plot_eigenmode_fluxes up to its loop.
Call_plot_eigenmode_fluxes ==
    /\ pc = "idle"
    /\ \E a \in EigenmodeArgs :
          /\ call' = "plot_eigenmode_fluxes"
          /\ args' = a
          /\ io' = None
          /\ Becomes(EigenmodeBegin(a, AtCall), "sweep")
          /\ UNCHANGED <<loop, kept>>

\* One iteration of its loop: the plots of one eigenmode.
SweepMode ==
    /\ pc = "sweep"
    /\ loop < Len(ModeNumbers(args.eigenmodes))
    /\ \E env \in Environments :
          /\ io' = env
          /\ Becomes(EigenmodeIteration(ModeNumbers(args.eigenmodes)[loop + 1],
                                        args, env, Now), "sweep")
    /\ loop' = loop + 1
    /\ UNCHANGED <<call, args, kept>>

\* The end of its loop.
SweepEnd ==
    /\ pc = "sweep"
    /\ loop = Len(ModeNumbers(args.eigenmodes))
    /\ Ends(EigenmodeEnd(Now))
    /\ UNCHANGED <<call, args, io, loop, kept>>

NextData == Call_plot_spatial_data \/ Return

NextFlux ==
    \/ Call_plot_spatial_fluxes
    \/ Call_plot_energy_fluxes
    \/ Return

SpecFlux == Init /\ [][NextFlux]_vars

NextSweep ==
    \/ Call_plot_eigenmode_fluxes
    \/ SweepMode
    \/ SweepEnd
    \/ Return

SpecSweep == Init /\ [][NextSweep]_vars

NextColor ==
    \/ Call_colorize
    \/ Call_plot_cells
    \/ Call_plot_materials
    \/ Call_plot_cmfd_cells
    \/ Call_plot_flat_source_regions
    \/ Remember
    \/ Return

SpecColor == Init /\ [][NextColor]_vars

NextRaster ==
    \/ Call_plot_spatial_data_again
    \/ Call_colorize
    \/ RememberRaster
    \/ Return

SpecRaster == Init /\ [][NextRaster]_vars

SpecData == Init /\ [][NextData]_vars


-----------------------------------------------------------------------------
(* Claims about the rasterization and the colorization stages.             *)

GridOf(p) == DOMAIN p.raster

\* The call was rejected by one of its error checks.
RuntimeErrors == {"savefig failed", "IndexError", "TypeError"}
Rejected == pc = "error" /\ err \notin RuntimeErrors

\* C2: in plot_spatial_data, whenever the sample point of a grid index
\* (i, j) lies outside all regions (the lookup reports no region), the entry
\* the loop wrote for (i, j) is the sentinel -1.
C2_OutsideIsSentinel ==
    plot # None =>
        \A i \in GridOf(plot), j \in GridOf(plot) :
            LET p == SamplePoint(plot.coords, i, j)
                t == RasterTarget(i, j)
            IN  isnan(getFSRId(p.x, p.y, plot.coords.den))
                    => plot.raster[t[1]][t[2]] = Float(-1)

C2_Witness ==
    /\ plot # None
    /\ \E i \in GridOf(plot), j \in GridOf(plot) :
          LET p == SamplePoint(plot.coords, i, j)
          IN  isnan(getFSRId(p.x, p.y, plot.coords.den))
    /\ \E r \in GridOf(plot), c \in GridOf(plot) : plot.raster[r][c] # Float(-1)

\* C3 (as claimed): every entry that rasterization set to the sentinel -1
\* still holds -1 after the colorization stage, whatever norm and
\* transparent_zeros are.
C3_SentinelPreserved ==
    (pc = "done" /\ plot # None) =>
        \A r \in GridOf(plot), c \in GridOf(plot) :
            plot.raster[r][c] = Float(-1) => plot.surface[r][c] = Float(-1)

\* C5: a call of plot_spatial_data with an fsrs_to_data array shorter than
\* the geometry's region count ends with a validation error, and no
\* containment query was made.
ShortData ==
    /\ call = "plot_spatial_data"
    /\ args.geometry = "Geometry"
    /\ isinstance_ndarray(args.fsrs_to_data)
    /\ len(args.fsrs_to_data[2]) < getNumFSRs

C5_ShortDataRejectedBeforeRaster ==
    ShortData => Rejected /\ eff.queries = 0 /\ plot = None

C5_Witness == ShortData /\ Rejected /\ args.gridsize[2] > 0 /\ args.zcoord = None

\* C8: when norm is requested and the rasterized field has a positive finite
\* maximum m, every entry of the normalized field is the rasterized entry
\* divided by m, and the maximum of the normalized field is exactly 1.0.
C8_NormalizedMaxIsOne ==
    (plot # None /\ plot.norm) =>
        LET m == FloatMax(Entries(plot.raster))
        IN  (isfinite(m) /\ m[2] > 0) =>
                /\ FloatMax(Entries(plot.normed)) = Float(1)
                /\ \A r \in GridOf(plot), c \in GridOf(plot) :
                      /\ isfinite(plot.normed[r][c])
                      /\ plot.normed[r][c][2] * m[2] * plot.raster[r][c][3]
                            = plot.raster[r][c][2] * m[3] * plot.normed[r][c][3]

C8_Witness ==
    /\ plot # None /\ plot.norm
    /\ FloatMax(Entries(plot.raster)) = Float(MaxData)
    /\ \E r \in GridOf(plot), c \in GridOf(plot) : plot.raster[r][c] = Float(1)
    /\ \E r \in GridOf(plot), c \in GridOf(plot) : plot.raster[r][c] = Float(-1)

\* C9: when transparent_zeros is requested, the field handed to the renderer
\* has no entry equal to zero: every entry that was zero after rasterization
\* and normalization is NaN, and every other entry is unchanged.
C9_NoZeroLeft ==
    (plot # None /\ plot.transparent_zeros) =>
        \A r \in GridOf(plot), c \in GridOf(plot) :
            /\ ~FloatEq(plot.surface[r][c], Float(0))
            /\ plot.image[(len(plot.image) - 1) - r][c] = plot.surface[r][c]
            /\ FloatEq(plot.normed[r][c], Float(0)) => isnan(plot.surface[r][c])
            /\ ~FloatEq(plot.normed[r][c], Float(0)) => plot.surface[r][c] = plot.normed[r][c]

C9_Witness ==
    /\ plot # None /\ plot.transparent_zeros
    /\ \E r \in GridOf(plot), c \in GridOf(plot) : FloatEq(plot.normed[r][c], Float(0))
    /\ \E r \in GridOf(plot), c \in GridOf(plot) :
          ~isnan(plot.surface[r][c]) /\ plot.surface[r][c] # Float(-1)

\* C10 (as claimed): for every window and every grid index pair (k, l), what
\* the renderer draws at (xcoords[k], ycoords[l]) is the entry of the region
\* containing the point (xcoords[k], ycoords[l]), and the point sampled for
\* it lies inside the window.
InWindow(p, coords) ==
    /\ coords.bounds[1] * coords.den <= p.x /\ p.x <= coords.bounds[2] * coords.den
    /\ coords.bounds[3] * coords.den <= p.y /\ p.y <= coords.bounds[4] * coords.den

C10_DrawnIsRegionAtPoint ==
    (pc = "done" /\ plot # None /\ ~plot.norm /\ ~plot.transparent_zeros) =>
        \A k \in GridOf(plot), l \in GridOf(plot) :
            /\ DrawnAt(plot.image, k, l) =
                  RasterEntry(getFSRId(plot.coords.x[k], plot.coords.y[l], plot.coords.den),
                              plot.data)
            /\ \A i \in GridOf(plot), j \in GridOf(plot) :
                  RasterTarget(i, j) = <<l, k>> => InWindow(SamplePoint(plot.coords, i, j), plot.coords)


-----------------------------------------------------------------------------
(* Claims about the identity color mapping.                                *)

SameKey(a, b) == a.kind = b.kind /\ a.seed = b.seed /\ a.n = b.n

\* C6: the identity color mapping a call builds (by _colorize, plot_cells or
\* plot_materials) is a bijection from its n ids onto 0 .. n-1, and it is
\* the mapping every earlier call of the same builder built for the same
\* seed and n, whatever calls ran in between.
C6_MappingBijectiveAndReproducible ==
    colors # None =>
        /\ Cardinality(DOMAIN colors.map) = colors.n
        /\ {colors.map[d] : d \in DOMAIN colors.map} = 0 .. colors.n - 1
        /\ (kept # None /\ SameKey(kept, colors)) => kept.map = colors.map

C6_Witness ==
    /\ colors # None /\ kept # None /\ SameKey(kept, colors)
    /\ kept.age = MaxAge
    /\ colors.n = MaxColors
    /\ \E d \in DOMAIN colors.map : colors.map[d] # d

\* C7 (as claimed): the permutation of _colorize is the one the shuffle
\* produces from the seed of the call (1 when no seed is given).
C7_SeedIsUsed ==
    (call = "_colorize" /\ colors # None) =>
        colors.map = shuffle(arange(colors.n), np_seed(colors.seed)).x


-----------------------------------------------------------------------------
(* Claims about the builders.                                              *)

\* C1 (as claimed): when a call of plot_eigenmode_fluxes ends, with every
\* plot made or with an exception from the plot of some mode, the output
\* subdirectory is the default '/plots/'.
C1_SubdirectoryRestored ==
    (call = "plot_eigenmode_fluxes" /\ pc \in {"done", "error"})
        => subdirectory = DefaultSubdirectory

\* C4 (as claimed): a call that one of its error checks rejects has made no
\* output directory, built no per-region data array and created no figure.
C4_ValidationBeforeWork ==
    Rejected => eff.madeDirs = {} /\ eff.arrays = 0 /\ eff.figures = 0

\* C11 (as claimed): a call of plot_spatial_fluxes that ends normally has
\* made one plot per requested energy group, in the order requested, and the
\* per-region data of the plot named for group g is the flux of group g in
\* each region.
C11_PlotShowsItsGroup ==
    (call = "plot_spatial_fluxes" /\ pc = "done") =>
        /\ Len(eff.plots) = Len(args.energy_groups[2])
        /\ \A k \in DOMAIN eff.plots :
              /\ eff.plots[k].group = args.energy_groups[2][k]
              /\ \A r \in DOMAIN eff.plots[k].data :
                    eff.plots[k].data[r] = solver_getFlux(flux, r, eff.plots[k].group)

\* C12: a call of plot_energy_fluxes with supplied group bounds that are not
\* strictly increasing, or are not one more than the energy groups, or hold
\* a negative bound (one of these or several at once) ends with a
\* validation error, and has read no flux and drawn no figure; with a valid
\* solver and valid fsrs the error is one of the three of the group bounds.
BoundsSupplied ==
    /\ call = "plot_energy_fluxes"
    /\ isinstance_list(args.group_bounds)
    /\ \A k \in DOMAIN args.group_bounds[2] : is_number(args.group_bounds[2][k])

NotIncreasing == ~StrictlyIncreasing(args.group_bounds[2])
WrongCount == Len(args.group_bounds[2]) # getNumEnergyGroups + 1
HasNegative == \E k \in DOMAIN args.group_bounds[2] : args.group_bounds[2][k][2] < 0

GroupBoundsErrors ==
    {"group bounds are not monotonically increasing", "wrong number of group bounds",
     "negative group bound"}

C12_BadGroupBoundsRejected ==
    (BoundsSupplied /\ (NotIncreasing \/ WrongCount \/ HasNegative)) =>
        /\ Rejected
        /\ eff.reads = 0 /\ eff.figures = 0 /\ eff.plots = << >>
        /\ (IsSolver(args.solver) /\ FsrsError(args.fsrs) = "none")
              => err \in GroupBoundsErrors

C12_Witness ==
    /\ BoundsSupplied /\ ~NotIncreasing /\ WrongCount /\ HasNegative
    /\ pc = "error" /\ err = "wrong number of group bounds"
    /\ eff.madeDirs # {}

\* C13 (as claimed): a call of plot_cmfd_cells with a Cmfd object that has
\* no coarse-mesh overlay ends with an error and has made no plot (where
\* the file system would have taken the plot).
C13_NoOverlayIsAnError ==
    (/\ call = "plot_cmfd_cells" /\ pc \in {"done", "error"}
     /\ ~args.cmfd.overlay /\ io.savefig)
        => pc = "error" /\ plot = None /\ eff.figures = 0 /\ eff.files = {}

\* C14 (as claimed): each of the calls of plot_cells the test makes with
\* get_figure=True ends normally, returns a figure to its caller and writes
\* no image file.
C14_InMemoryReturnsFigure ==
    (call = "plot_cells" /\ args \in TestPlotCellsArgs /\ pc \in {"done", "error"})
        => pc = "done" /\ eff.returned = "figure" /\ eff.files = {}

\* C15 (as claimed): no step of a plot call changes the state of NumPy's
\* global pseudo-random generator.
C15_GeneratorUnchanged == [][rng' = rng]_vars

\* C16 (as claimed): whenever plot_spatial_data has started rasterization
\* (has made a containment query), its window has xmin < xmax and
\* ymin < ymax, and its z lies within the z-extent of the geometry.
C16_WindowIsWellFormed ==
    (call = "plot_spatial_data" /\ eff.queries > 0) =>
        LET bounds == _get_pixel_coords(args.gridsize[2], args.xlim, args.ylim).bounds
            z == IF args.zcoord = None THEN <<"float", 0>> ELSE args.zcoord
        IN  /\ bounds[1] < bounds[2]
            /\ bounds[3] < bounds[4]
            /\ getMinZ <= z[2] /\ z[2] <= getMaxZ

C18_MarkerSizeNonNegative ==
    (/\ call = "plot_flat_source_regions" /\ pc \in {"done", "error"}
     /\ is_number(args.marker_size))
        => (err = "negative marker_size" <=> args.marker_size[2] < 0)

\* The number a sequence of decimal digits writes.
RECURSIVE DigitsValue(_)
DigitsValue(d) ==
    IF Len(d) = 0 THEN 0 ELSE 10 * DigitsValue(SubSeq(d, 1, Len(d) - 1)) + d[Len(d)]

\* The step is an iteration of the loop of plot_eigenmode_fluxes.
SweepStep == pc = "sweep" /\ loop' = loop + 1

\* C19: in every iteration of the loop of plot_eigenmode_fluxes, for mode m,
\* the subdirectory is '/plots/eig-<digits>-flux/' with digits that write m
\* (so two different modes have different subdirectories, and none has the
\* default one), and every file written and directory made in the
\* iteration is that subdirectory's.
C19_ModeHasItsOwnSubdirectory ==
    [][SweepStep =>
          LET m == ModeNumbers(args.eigenmodes)[loop + 1]
          IN  /\ Len(subdirectory') = 3
              /\ subdirectory'[1] = "/plots/eig-" /\ subdirectory'[3] = "-flux/"
              /\ DigitsValue(subdirectory'[2]) = m
              /\ subdirectory' # DefaultSubdirectory
              /\ \A f \in eff'.files \ eff.files : f[1] = subdirectory'
              /\ eff'.madeDirs \ eff.madeDirs \subseteq {subdirectory'}]_vars

C19_Witness ==
    /\ call = "plot_eigenmode_fluxes" /\ pc = "done"
    /\ \E f \in eff.files : f[1][2] = <<0, 1>>
    /\ \E f \in eff.files : f[1][2] = <<1, 0>>
    /\ \A f \in eff.files : f[1] # DefaultSubdirectory

\* C20 (as claimed): a call of _colorize ends normally for every array of
\* non-negative region ids, and maps each id d to the color index
\* perm[d mod num_colors].
C20_IdsWrapAround ==
    (call = "_colorize" /\ pc \in {"done", "error"}) =>
        /\ pc = "done"
        /\ \A k \in DOMAIN args.data :
              colors.out[k] = colors.map[args.data[k] % args.num_colors]

\* C21: when a call of plot_eigenmode_fluxes over a non-empty list of modes
\* has ended normally, the flux of the MOC solver is the real part of the
\* eigenvector of the last mode of the list (its absolute value when that
\* mode is 1), and not the flux the solver had converged.
C21_FluxIsLastEigenvector ==
    (call = "plot_eigenmode_fluxes" /\ pc = "done" /\ Len(args.eigenmodes[2]) > 0) =>
        LET last == args.eigenmodes[2][Len(args.eigenmodes[2])][2]
        IN  /\ flux = [k \in 0 .. FluxLength - 1 |->
                          IF last = 1 THEN Abs(EigenVector(last)[k][1])
                          ELSE EigenVector(last)[k][1]]
            /\ flux # ConvergedFlux

C21_Witness ==
    /\ call = "plot_eigenmode_fluxes" /\ pc = "done"
    /\ Len(args.eigenmodes[2]) = 2
    /\ args.eigenmodes[2][1][2] = NumModes /\ args.eigenmodes[2][2][2] = 1
    /\ \A k \in DOMAIN flux : flux[k] > 0 /\ EigenVector(1)[k][1] < 0
    /\ eff.files # {}


====
